---------------------------- MODULE Spec2Model ----------------------------
(***************************************************************************)
(* Model of the script execution subsystem of sylver:                      *)
(*   - the value model ScriptValue and its derived equality / hashing      *)
(*     (crates/sylver-core/src/script/mod.rs),                             *)
(*   - the context handle ScriptEvalCtx (same file),                        *)
(*   - the Python backend: compile_function, eval and the marshalling      *)
(*     routines to_pyobject / try_into                                      *)
(*     (crates/sylver-script/src/python.rs).                                *)
(***************************************************************************)
EXTENDS Integers, Sequences, FiniteSets, TLC

VARIABLES
    \* ---- marshalling (to_pyobject / try_into) ----
    hostValue,   \* the ScriptValue handed to to_pyobject
    foreign,     \* the native object produced by to_pyobject, or NotYet
    back,        \* the Result of try_into on `foreign`, or NotYet
    \* ---- derived equality / hashing of ScriptValue ----
    lhs, rhs,    \* two ScriptValue values
    cmp,         \* the outcome of comparing / hashing them, or NotYet
    \* ---- the Python backend (compile_function / eval) ----
    source,      \* the caller's input: [code, path, fn_name]
    script,      \* the PythonScript compile_function returned, or NotYet
    proc,        \* the calling process: "running" or "panicked"
    last,        \* the last call made on the engine and what came of it
    failed,      \* whether some eval on this engine has failed at run time
    \* ---- the context handle ScriptEvalCtx ----
    ctxState,    \* per evaluation context: "fresh", "borrowed" or "released"
    inflight,    \* per thread: the context of its in-flight in-query call, or "none"
    held,        \* <<thread, context>>: the thread holds a copy of the handle
    accessing,   \* <<thread, context, kind>>: a reference got from ctx / ctx_mut is live
    lastDeref    \* the last call of ctx / ctx_mut and what came of it

marshalVars == <<hostValue, foreign, back>>
eqVars == <<lhs, rhs, cmp>>
engineVars == <<source, script, proc, last, failed>>
ctxVars == <<ctxState, inflight, held, accessing, lastDeref>>
vars == <<hostValue, foreign, back, lhs, rhs, cmp, source, script, proc, last, failed,
          ctxState, inflight, held, accessing, lastDeref>>

NotYet == [none |-> TRUE]

(***************************************************************************)
(* Bounds.  i64 is scaled down to IntBits bits (TLC's integers are 32 bit  *)
(* wide); the guest runtime's integers are unbounded and range over a      *)
(* strictly wider interval.                                                *)
(***************************************************************************)
IntBits == 7

I64Min == -(2 ^ (IntBits - 1))
I64Max == (2 ^ (IntBits - 1)) - 1

\* The model's strings, in the order String's Ord gives them.
StrOrder == <<"a", "b">>
StrUniverse == {StrOrder[i] : i \in 1..Len(StrOrder)}

(***************************************************************************)
(* Result<T, ScriptError>                                                  *)
(***************************************************************************)
Ok(v) == [ok |-> TRUE, val |-> v]
Err(e) == [ok |-> FALSE, err |-> e]

RuntimeError(detail) == [kind |-> "RuntimeError", detail |-> detail]
UnsupportedType(detail) == [kind |-> "UnsupportedType", detail |-> detail]
Compilation(file, detail) == [kind |-> "Compilation", file |-> file, detail |-> detail]

(***************************************************************************)
(* enum ScriptValue                                                        *)
(***************************************************************************)
Bool(b) == [tag |-> "Bool", b |-> b]
Integer(n) == [tag |-> "Integer", i |-> n]
Str(s) == [tag |-> "Str", s |-> s]
Dict(m) == [tag |-> "Dict", d |-> m]
List(l) == [tag |-> "List", l |-> l]
Scope(id, graph, ctx) == [tag |-> "Scope", id |-> id, graph |-> graph, ctx |-> ctx]

EmptyMap == [k \in {} |-> NotYet]

\* BTreeMap::insert: the key's previous value, if any, is overwritten.
MapInsert(m, k, v) == [x \in (DOMAIN m) \cup {k} |-> IF x = k THEN v ELSE m[x]]

\* BTreeMap iteration: the keys in ascending order.
RECURSIVE KeysFrom(_, _)
KeysFrom(m, i) ==
    IF i > Len(StrOrder) THEN <<>>
    ELSE IF StrOrder[i] \in DOMAIN m THEN <<StrOrder[i]>> \o KeysFrom(m, i + 1)
    ELSE KeysFrom(m, i + 1)

SortedKeys(m) == KeysFrom(m, 1)

(***************************************************************************)
(* Native objects of the guest runtime (PyObjectRef).  A dict keeps its    *)
(* entries in insertion order.                                             *)
(***************************************************************************)
PyInt(n) == [ty |-> "int", n |-> n]
PyStr(s) == [ty |-> "str", s |-> s]
PyDict(items) == [ty |-> "dict", items |-> items]
PyNone == [ty |-> "NoneType"]

\* (mutation: the lookup is made by value instead of by key)
get_or_insert_by_value(items, k, v) ==
    IF \E i \in 1..Len(items) : items[i][2] = v THEN items
    ELSE Append(items, <<k, v>>)

\* PyDict::get_or_insert: the entry is added only when the key is absent.
get_or_insert(items, k, v) ==
    IF \E i \in 1..Len(items) : items[i][1] = k THEN items
    ELSE Append(items, <<k, v>>)

(***************************************************************************)
(* impl ToPyObject for ScriptValue.  The match has arms for Integer, Str   *)
(* and Dict only, and the function's return type is PyObjectRef: for any   *)
(* other variant it has no way to report an error.  `u` is what a build    *)
(* yields for such a variant: an abort, or some native object.             *)
(***************************************************************************)
PyPanic == [ty |-> "!panic"]
PyOpaque == [ty |-> "object"]
UnmappedOutcomes == {PyPanic, PyOpaque}

RECURSIVE to_pyobject(_, _)
RECURSIVE dict_to_py(_, _, _, _)

dict_to_py(d, keys, items, u) ==
    IF keys = <<>> THEN items
    ELSE dict_to_py(d, Tail(keys),
                    get_or_insert(items, PyStr(Head(keys)), to_pyobject(d[Head(keys)], u)),
                    u)

to_pyobject(v, u) ==
    CASE v.tag = "Integer" -> PyInt(v.i)
      [] v.tag = "Str" -> PyStr(v.s)
      [] v.tag = "Dict" -> PyDict(dict_to_py(v.d, SortedKeys(v.d), <<>>, u))
      [] OTHER -> u

\* Whether producing the object aborted on the way.
RECURSIVE Panicked(_)
Panicked(o) ==
    \/ o = PyPanic
    \/ /\ o.ty = "dict"
       /\ \E i \in 1..Len(o.items) : Panicked(o.items[i][1]) \/ Panicked(o.items[i][2])

(***************************************************************************)
(* impl TryInto<ScriptValue> for PyObjectRef                               *)
(***************************************************************************)
\* (mutation: the integer is cast to i64, wrapping around, instead of checked)
pyint_to_value_wrapping(o) ==
    Ok(Integer(((o.n - I64Min) % (2 ^ IntBits)) + I64Min))

\* pyint_to_value: i64::try_from(pyint.as_bigint()), an error mapped to "big_int".
pyint_to_value(o) ==
    IF I64Min <= o.n /\ o.n <= I64Max THEN Ok(Integer(o.n))
    ELSE Err(UnsupportedType("big_int"))

pystr_to_value(o) == Str(o.s)

\* payload::<PyInt>(): the guest's bool objects carry an integer payload too.
HasIntPayload(o) == o.ty \in {"int", "bool"}

RECURSIVE try_into(_)
RECURSIVE pydict_loop(_, _, _)

pydict_loop(items, i, map) ==
    IF i > Len(items) THEN Ok(Dict(map))
    ELSE LET key_value == items[i][1]
             value == items[i][2]
         IN IF key_value.ty # "str"
            THEN Err(UnsupportedType("DictKey(" \o key_value.ty \o ")"))
            ELSE LET r == try_into(value)
                 IN IF ~r.ok THEN r
                    ELSE pydict_loop(items, i + 1, MapInsert(map, key_value.s, r.val))

pydict_to_value(o) == pydict_loop(o.items, 1, EmptyMap)

try_into(o) ==
    IF HasIntPayload(o) THEN pyint_to_value(o)
    ELSE IF o.ty = "str" THEN Ok(pystr_to_value(o))
    ELSE IF o.ty = "dict" THEN pydict_to_value(o)
    ELSE Err(UnsupportedType("Unsupported type: " \o o.ty))

(***************************************************************************)
(* The values the marshalling specification draws from.                    *)
(***************************************************************************)
IntSamples == {I64Min, 0, I64Max}

SupportedAtoms == {Integer(n) : n \in IntSamples} \cup {Str(s) : s \in StrUniverse}
UnsupportedAtoms == {Bool(TRUE), List(<<Integer(0)>>), Scope(1, "g1", "c1")}

DictsOver(S) ==
    UNION {{Dict(m) : m \in [K -> S]} : K \in SUBSET StrUniverse}

Values0 == SupportedAtoms \cup UnsupportedAtoms
Values1 == Values0 \cup DictsOver(Values0)
Values2 == Values1 \cup DictsOver(Values1)

\* Built only from Integer, Str and Dict, at every depth.
RECURSIVE OnlySupported(_)
OnlySupported(v) ==
    CASE v.tag \in {"Integer", "Str"} -> TRUE
      [] v.tag = "Dict" -> \A k \in DOMAIN v.d : OnlySupported(v.d[k])
      [] OTHER -> FALSE

RECURSIVE Depth(_)
Depth(v) ==
    IF v.tag # "Dict" THEN 0
    ELSE IF DOMAIN v.d = {} THEN 1
    ELSE 1 + (CHOOSE n \in {Depth(v.d[k]) : k \in DOMAIN v.d} :
                 \A k \in DOMAIN v.d : Depth(v.d[k]) <= n)

IdleEq == lhs = NotYet /\ rhs = NotYet /\ cmp = NotYet

IdleCtx ==
    /\ ctxState = NotYet
    /\ inflight = NotYet
    /\ held = {}
    /\ accessing = {}
    /\ lastDeref = NotYet

IdleEngine ==
    /\ source = NotYet
    /\ script = NotYet
    /\ proc = "running"
    /\ last = NotYet
    /\ failed = FALSE

(***************************************************************************)
(* Marshalling specification: a host value is converted to a native        *)
(* object, and the native object is converted back.                        *)
(***************************************************************************)
InitMarshal ==
    /\ hostValue \in Values2
    /\ foreign = NotYet
    /\ back = NotYet
    /\ IdleEq
    /\ IdleEngine
    /\ IdleCtx

ToForeign ==
    /\ foreign = NotYet
    /\ \E u \in UnmappedOutcomes : foreign' = to_pyobject(hostValue, u)
    /\ UNCHANGED <<hostValue, back, eqVars, engineVars, ctxVars>>

ToHost ==
    /\ foreign # NotYet
    /\ ~Panicked(foreign)
    /\ back = NotYet
    /\ back' = try_into(foreign)
    /\ UNCHANGED <<hostValue, foreign, eqVars, engineVars, ctxVars>>

NextMarshal == ToForeign \/ ToHost

SpecMarshal == InitMarshal /\ [][NextMarshal]_vars

\* C8: for every ScriptValue built only from Integer, Str and Dict, the
\* host->foreign->host round trip returns Ok of a value equal to the original.
C8_RoundTrip ==
    (OnlySupported(hostValue) /\ back # NotYet) => back = Ok(hostValue)

\* A nested Dict with two keys and both kinds of leaves has made the round trip.
C8_Witness ==
    /\ OnlySupported(hostValue)
    /\ back # NotYet
    /\ Depth(hostValue) = 2
    /\ hostValue.tag = "Dict"
    /\ DOMAIN hostValue.d = {"a", "b"}
    /\ hostValue.d["a"].tag = "Dict"
    /\ DOMAIN hostValue.d["a"].d = {"a", "b"}
    /\ hostValue.d["a"].d["b"] = Integer(I64Min)
    /\ hostValue.d["b"] = Str("b")

(***************************************************************************)
(* #[derivative(Eq, PartialEq, Hash)] on ScriptValue: the comparison and   *)
(* the hash visit the variant's discriminant and its fields in order,      *)
(* skipping the fields marked "ignore" (Scope's SGraph and                 *)
(* RefCell<ScriptEvalCtx>).                                                *)
(***************************************************************************)
Discriminant(v) ==
    CASE v.tag = "Bool" -> 0
      [] v.tag = "Integer" -> 1
      [] v.tag = "Str" -> 2
      [] v.tag = "Dict" -> 3
      [] v.tag = "List" -> 4
      [] v.tag = "Scope" -> 5

\* (mutation: no field of Scope is ignored)
RECURSIVE ValueEq_all_fields(_, _)
ValueEq_all_fields(x, y) ==
    /\ x.tag = y.tag
    /\ CASE x.tag = "Bool" -> x.b = y.b
         [] x.tag = "Integer" -> x.i = y.i
         [] x.tag = "Str" -> x.s = y.s
         [] x.tag = "Dict" ->
               /\ DOMAIN x.d = DOMAIN y.d
               /\ \A k \in DOMAIN x.d : ValueEq_all_fields(x.d[k], y.d[k])
         [] x.tag = "List" ->
               /\ Len(x.l) = Len(y.l)
               /\ \A i \in 1..Len(x.l) : ValueEq_all_fields(x.l[i], y.l[i])
         [] x.tag = "Scope" -> x.id = y.id /\ x.graph = y.graph /\ x.ctx = y.ctx

RECURSIVE ValueEq(_, _)
ValueEq(x, y) ==
    /\ x.tag = y.tag
    /\ CASE x.tag = "Bool" -> x.b = y.b
         [] x.tag = "Integer" -> x.i = y.i
         [] x.tag = "Str" -> x.s = y.s
         [] x.tag = "Dict" ->
               /\ DOMAIN x.d = DOMAIN y.d
               /\ \A k \in DOMAIN x.d : ValueEq(x.d[k], y.d[k])
         [] x.tag = "List" ->
               /\ Len(x.l) = Len(y.l)
               /\ \A i \in 1..Len(x.l) : ValueEq(x.l[i], y.l[i])
         [] x.tag = "Scope" -> x.id = y.id

\* What the derived Hash feeds to the hasher, in order.
RECURSIVE HashFeed(_)
RECURSIVE HashSeq(_, _)
RECURSIVE HashMap(_, _)

HashSeq(l, i) ==
    IF i > Len(l) THEN <<>> ELSE HashFeed(l[i]) \o HashSeq(l, i + 1)

HashMap(d, keys) ==
    IF keys = <<>> THEN <<>>
    ELSE <<[str |-> Head(keys)]>> \o HashFeed(d[Head(keys)]) \o HashMap(d, Tail(keys))

HashFeed(v) ==
    <<[disc |-> Discriminant(v)]>> \o
    CASE v.tag = "Bool" -> <<[bool |-> v.b]>>
      [] v.tag = "Integer" -> <<[int |-> v.i]>>
      [] v.tag = "Str" -> <<[str |-> v.s]>>
      [] v.tag = "Dict" ->
            <<[len |-> Cardinality(DOMAIN v.d)]>> \o HashMap(v.d, SortedKeys(v.d))
      [] v.tag = "List" -> <<[len |-> Len(v.l)]>> \o HashSeq(v.l, 1)
      [] v.tag = "Scope" -> <<[scope |-> v.id]>>

(***************************************************************************)
(* The values the equality specification draws from.                       *)
(***************************************************************************)
ScopeIds == {1, 2}
Graphs == {"g1", "g2"}
CtxHandles == {"c1", "c2"}

EqScopes == {Scope(id, g, c) : id \in ScopeIds, g \in Graphs, c \in CtxHandles}
EqAtoms ==
    {Bool(TRUE), Bool(FALSE), Integer(0), Integer(1), Str("a"), Str("b")} \cup EqScopes
EqLists ==
    {List(<<>>)} \cup {List(<<x>>) : x \in EqAtoms}
        \cup {List(<<Integer(0), x>>) : x \in EqScopes}
EqDicts ==
    {Dict(EmptyMap)} \cup {Dict([k \in {"a"} |-> x]) : x \in EqAtoms}
        \cup {Dict([k \in {"b"} |-> Integer(0)]),
              Dict([k \in {"a", "b"} |-> Integer(0)])}
EqValues == EqAtoms \cup EqLists \cup EqDicts

\* The value with every Scope's graph and context reference blanked.
RECURSIVE Erase(_)
Erase(v) ==
    CASE v.tag = "Scope" -> Scope(v.id, "-", "-")
      [] v.tag = "List" -> List([i \in 1..Len(v.l) |-> Erase(v.l[i])])
      [] v.tag = "Dict" -> Dict([k \in DOMAIN v.d |-> Erase(v.d[k])])
      [] OTHER -> v

RECURSIVE HasScope(_)
HasScope(v) ==
    CASE v.tag = "Scope" -> TRUE
      [] v.tag = "List" -> \E i \in 1..Len(v.l) : HasScope(v.l[i])
      [] v.tag = "Dict" -> \E k \in DOMAIN v.d : HasScope(v.d[k])
      [] OTHER -> FALSE

IdleMarshal == hostValue = NotYet /\ foreign = NotYet /\ back = NotYet

(***************************************************************************)
(* Equality specification: two values are compared and hashed.             *)
(***************************************************************************)
InitEq ==
    /\ lhs \in EqValues
    /\ rhs \in EqValues
    /\ cmp = NotYet
    /\ IdleMarshal
    /\ IdleEngine
    /\ IdleCtx

Compare ==
    /\ cmp = NotYet
    /\ cmp' = [eq |-> ValueEq(lhs, rhs), ne |-> ~ValueEq(lhs, rhs)]
    /\ UNCHANGED <<marshalVars, lhs, rhs, engineVars, ctxVars>>

HashBoth ==
    /\ cmp # NotYet
    /\ "hl" \notin DOMAIN cmp
    /\ cmp' = [eq |-> cmp.eq, ne |-> cmp.ne, hl |-> HashFeed(lhs), hr |-> HashFeed(rhs)]
    /\ UNCHANGED <<marshalVars, lhs, rhs, engineVars, ctxVars>>

NextEq == Compare \/ HashBoth

SpecEq == InitEq /\ [][NextEq]_vars

Compared == cmp # NotYet
Hashed == cmp # NotYet /\ "hl" \in DOMAIN cmp

\* C9: two Scope values compare equal exactly when their identifiers are equal,
\* and hash equally when they are, whatever graph and context they carry; every
\* other value compares structurally (up to the ignored fields of nested Scopes),
\* and equal values hash equally.
C9_ScopeEqById ==
    /\ (Compared /\ lhs.tag = "Scope" /\ rhs.tag = "Scope")
          => (cmp.eq <=> lhs.id = rhs.id)
    /\ (Hashed /\ lhs.tag = "Scope" /\ rhs.tag = "Scope" /\ lhs.id = rhs.id)
          => cmp.hl = cmp.hr
    /\ (Compared /\ ~HasScope(lhs) /\ ~HasScope(rhs)) => (cmp.eq <=> lhs = rhs)
    /\ Compared => (cmp.eq <=> Erase(lhs) = Erase(rhs))
    /\ (Hashed /\ cmp.eq) => cmp.hl = cmp.hr

\* Two Scopes with one identifier and different graph and context references
\* have been compared and hashed.
C9_Witness ==
    /\ Hashed
    /\ lhs = Scope(1, "g1", "c1")
    /\ rhs = Scope(1, "g2", "c2")
    /\ cmp.eq

(***************************************************************************)
(* The Python backend.  Source text is a sequence of top-level statements  *)
(* as rustpython_parser reads them; a piece of text that is no statement   *)
(* makes the parse fail.                                                   *)
(***************************************************************************)
MaxStmts == 2

\* Function bodies: what the function does with its parameter n.
AddConst(k) == [op |-> "AddConst", k |-> k, arity |-> 1]      \* return n + k
ConstBody(k) == [op |-> "Const", k |-> k, arity |-> 0]         \* return k
CallAdd(callee) == [op |-> "CallAdd", callee |-> callee, arity |-> 1]  \* return callee() + n
RaiseBody == [op |-> "Raise", arity |-> 1]                     \* raise Exception()
NoneBody == [op |-> "None", arity |-> 1]                       \* return None
ParamBody == [op |-> "Param", arity |-> 1]                     \* return n

\* ast::StmtKind
FunctionDef(name, body) == [kind |-> "FunctionDef", name |-> name, body |-> body]
Assign(name, value) == [kind |-> "Assign", name |-> name, value |-> value]
RaiseStmt == [kind |-> "Raise"]
ReturnStmt == [kind |-> "Return"]
ExprName(location, id) == [kind |-> "Expr", id |-> id, location |-> location]
InvalidText == [kind |-> "!invalid"]

Interactive(body) == [mod |-> "Interactive", body |-> body]

PyFunction(name, body, globals) ==
    [ty |-> "function", name |-> name, body |-> body, globals |-> globals]

PythonScript(invokable) == [invokable |-> invokable]

\* parse_module: rustpython_parser::parser::parse in Mode::Interactive.
parse_module(code, path) ==
    IF \E i \in 1..Len(code) : code[i] = InvalidText
    THEN Err(Compilation(path, "invalid syntax"))
    ELSE Ok(Interactive(code))

build_name_stmt(location, name) == ExprName(location, name)

\* (mutation: any top-level function definition satisfies the search)
append_func_ref_any_def(path, fn_name, ast) ==
    IF ast.mod # "Interactive" THEN Err(Compilation(path, "Not a module"))
    ELSE IF ~\E i \in 1..Len(ast.body) : ast.body[i].kind = "FunctionDef"
    THEN Err(Compilation(path, "Function " \o fn_name \o " not found"))
    ELSE IF Len(ast.body) = 0 THEN Err(Compilation(path, "Empty script"))
    ELSE Ok(Interactive(Append(ast.body, build_name_stmt(Len(ast.body), fn_name))))

\* append_func_ref: the search for the function comes first, the test for an
\* empty body second.  The Ok value is the module with the reference appended.
append_func_ref(path, fn_name, ast) ==
    IF ast.mod # "Interactive" THEN Err(Compilation(path, "Not a module"))
    ELSE IF ~\E i \in 1..Len(ast.body) :
                /\ ast.body[i].kind = "FunctionDef"
                /\ ast.body[i].name = fn_name
    THEN Err(Compilation(path, "Function " \o fn_name \o " not found"))
    ELSE IF Len(ast.body) = 0 THEN Err(Compilation(path, "Empty script"))
    ELSE Ok(Interactive(Append(ast.body, build_name_stmt(Len(ast.body), fn_name))))

\* compile_ast: rustpython_codegen::compile::compile_top; a `return` outside a
\* function is a codegen error.
compile_ast(path, ast) ==
    IF \E i \in 1..Len(ast.body) : ast.body[i].kind = "Return"
    THEN Err(Compilation(path, "'return' outside function"))
    ELSE Ok(ast.body)

\* The guest runtime running a module's statements in a fresh scope: a def or an
\* assignment binds its name, a raise stops the run, and the value of the unit
\* is the value of its last expression statement.
RECURSIVE RunStmts(_, _, _)
RunStmts(stmts, scope, value) ==
    IF stmts = <<>> THEN [raised |-> FALSE, val |-> value, globals |-> scope]
    ELSE LET stmt == Head(stmts)
         IN CASE stmt.kind = "FunctionDef" ->
                    RunStmts(Tail(stmts),
                             MapInsert(scope, stmt.name,
                                       PyFunction(stmt.name, stmt.body, EmptyMap)),
                             value)
              [] stmt.kind = "Assign" ->
                    RunStmts(Tail(stmts), MapInsert(scope, stmt.name, PyInt(stmt.value)),
                             value)
              [] stmt.kind = "Expr" ->
                    IF stmt.id \in DOMAIN scope
                    THEN RunStmts(Tail(stmts), scope, scope[stmt.id])
                    ELSE [raised |-> TRUE, exc |-> "NameError"]
              [] OTHER -> [raised |-> TRUE, exc |-> "Exception"]

\* A function object sees the module's scope as its globals.
Bind(obj, globals) ==
    IF obj.ty = "function" THEN PyFunction(obj.name, obj.body, globals) ELSE obj

\* (mutation: the function object is cut off from the scope the module ran in)
run_code_obj_no_globals(path, module_obj) ==
    LET r == RunStmts(module_obj, EmptyMap, PyNone)
    IN IF r.raised THEN Err(Compilation(path, "failed to run code object"))
       ELSE Ok(r.val)

\* run_code_obj: vm.run_code_obj in vm.new_scope_with_builtins(); any error of
\* the run becomes Compilation(path, "failed to run code object").
run_code_obj(path, module_obj) ==
    LET r == RunStmts(module_obj, EmptyMap, PyNone)
    IN IF r.raised THEN Err(Compilation(path, "failed to run code object"))
       ELSE Ok(Bind(r.val, r.globals))

compile_function(code, path, fn_name) ==
    LET parsed == parse_module(code, path)
    IN IF ~parsed.ok THEN parsed
       ELSE LET ast == append_func_ref(path, fn_name, parsed.val)
            IN IF ~ast.ok THEN ast
               ELSE LET module_obj == compile_ast(path, ast.val)
                    IN IF ~module_obj.ok THEN module_obj
                       ELSE LET invokable == run_code_obj(path, module_obj.val)
                            IN IF ~invokable.ok THEN invokable
                               ELSE Ok(PythonScript(invokable.val))

\* The guest runtime calling an object: PyResult<PyObjectRef>.
Returned(v) == [raised |-> FALSE, val |-> v]
Raised(e) == [raised |-> TRUE, exc |-> e]

PyAdd(x, y) ==
    IF HasIntPayload(x) /\ HasIntPayload(y) THEN Returned(PyInt(x.n + y.n))
    ELSE IF x.ty = "str" /\ y.ty = "str" THEN Returned(PyStr(x.s \o y.s))
    ELSE Raised("TypeError")

RECURSIVE invoke(_, _)
invoke(callable, args) ==
    IF callable.ty # "function" THEN Raised("TypeError")
    ELSE IF Len(args) # callable.body.arity THEN Raised("TypeError")
    ELSE LET body == callable.body
         IN CASE body.op = "AddConst" -> PyAdd(args[1], PyInt(body.k))
              [] body.op = "Const" -> Returned(PyInt(body.k))
              [] body.op = "Param" -> Returned(args[1])
              [] body.op = "None" -> Returned(PyNone)
              [] body.op = "Raise" -> Raised("Exception")
              [] body.op = "CallAdd" ->
                    IF body.callee \notin DOMAIN callable.globals THEN Raised("NameError")
                    ELSE LET r == invoke(Bind(callable.globals[body.callee],
                                              callable.globals), <<>>)
                         IN IF r.raised THEN r ELSE PyAdd(r.val, args[1])

\* What a call of eval comes to: it returns a Result, or the process panics.
EvalReturns(result, raised) == [panic |-> FALSE, result |-> result, raised |-> raised]
EvalPanics(raised) == [panic |-> TRUE, result |-> NotYet, raised |-> raised]

\* PythonScriptEngine::eval: the arguments are converted, the function is
\* invoked and the PyResult is unwrapped inside interpreter.enter; the value is
\* converted back outside of it.
eval(scr, args, u) ==
    LET pyargs == [i \in 1..Len(args) |-> to_pyobject(args[i], u)]
    IN IF \E i \in 1..Len(args) : Panicked(pyargs[i]) THEN EvalPanics(FALSE)
       ELSE LET r == invoke(scr.invokable, pyargs)
            IN IF r.raised THEN EvalPanics(TRUE)
               ELSE EvalReturns(try_into(r.val), FALSE)

(***************************************************************************)
(* The inputs the engine specification draws from.                         *)
(***************************************************************************)
Statements ==
    {FunctionDef("f", AddConst(1)), FunctionDef("f", RaiseBody),
     FunctionDef("f", NoneBody), FunctionDef("f", ParamBody),
     FunctionDef("hello", CallAdd("value")),
     FunctionDef("value", ConstBody(42)), FunctionDef("value", ParamBody),
     Assign("f", 0), Assign("value", 0),
     RaiseStmt, ReturnStmt, InvalidText}

SeqsUpTo(S, n) == UNION {[1..k -> S] : k \in 0..n}

Sources ==
    [code : SeqsUpTo(Statements, MaxStmts),
     path : {"test.py", "rules.py"},
     fn_name : {"f", "hello", "value", "g"}]

EvalArgs ==
    {Integer(5), Integer(10), Integer(I64Max), Str("a"),
     Dict([k \in {"a"} |-> Integer(5)]),
     Bool(TRUE), List(<<Integer(5)>>), Scope(1, "g1", "c1"),
     Dict([k \in {"a"} |-> Bool(TRUE)])}

EvalArgLists == {<<>>, <<Integer(5), Integer(10)>>} \cup {<<x>> : x \in EvalArgs}

(***************************************************************************)
(* Engine specification: the caller compiles its source with               *)
(* compile_function and evaluates the Script it got, any number of times,  *)
(* on one engine.  A panic ends the calling process.                       *)
(***************************************************************************)
InitEngine ==
    /\ source \in Sources
    /\ script = NotYet
    /\ proc = "running"
    /\ last = NotYet
    /\ failed = FALSE
    /\ IdleMarshal
    /\ IdleEq
    /\ IdleCtx

CompileFunction ==
    /\ proc = "running"
    /\ LET r == compile_function(source.code, source.path, source.fn_name)
       IN /\ last' = [op |-> "compile", result |-> r]
          /\ script' = IF r.ok THEN r.val ELSE script
    /\ UNCHANGED <<source, proc, failed, marshalVars, eqVars, ctxVars>>

Eval ==
    /\ proc = "running"
    /\ script # NotYet
    /\ \E args \in EvalArgLists, u \in UnmappedOutcomes :
          LET o == eval(script, args, u)
          IN /\ last' = [op |-> "eval", args |-> args, outcome |-> o]
             /\ proc' = IF o.panic THEN "panicked" ELSE proc
             /\ failed' = (failed \/ o.raised \/ (~o.panic /\ ~o.result.ok))
    /\ UNCHANGED <<source, script, marshalVars, eqVars, ctxVars>>

Next == CompileFunction \/ Eval

Spec == InitEngine /\ [][Next]_vars

LastIsCompile == last # NotYet /\ last.op = "compile"
LastIsEval == last # NotYet /\ last.op = "eval"

\* C1: a script body that raises while eval invokes it is returned to the caller
\* as Err(RuntimeError(detail)); the calling process does not panic.
C1_RaiseIsRuntimeError ==
    (LastIsEval /\ last.outcome.raised)
        => /\ ~last.outcome.panic
           /\ ~last.outcome.result.ok
           /\ last.outcome.result.err.kind = "RuntimeError"

\* C2: once some eval on the engine has failed at run time (the script raised,
\* or its result was unrepresentable), the engine is still usable for a later
\* eval.
C2_UsableAfterFailure == failed => proc = "running"

(***************************************************************************)
(* What the source text says, read off the text itself: the statement that *)
(* binds a name last, and what the function so bound returns for integer   *)
(* arguments.                                                              *)
(***************************************************************************)
Binds(stmt, name) == stmt.kind \in {"FunctionDef", "Assign"} /\ stmt.name = name

Declares(code, name) ==
    \E i \in 1..Len(code) : code[i].kind = "FunctionDef" /\ code[i].name = name

IsBound(code, name) == \E i \in 1..Len(code) : Binds(code[i], name)

FinalBinding(code, name) ==
    code[CHOOSE i \in 1..Len(code) :
            /\ Binds(code[i], name)
            /\ \A j \in (i + 1)..Len(code) : ~Binds(code[j], name)]

\* Every top-level statement is a def or an assignment: loading raises nothing.
RunsClean(code) == \A i \in 1..Len(code) : code[i].kind \in {"FunctionDef", "Assign"}

LeavesFunction(code, name) ==
    IsBound(code, name) /\ FinalBinding(code, name).kind = "FunctionDef"

Undefined == [def |-> FALSE]
Defined(n) == [def |-> TRUE, n |-> n]

RefReturn(code, name, ns) ==
    LET body == FinalBinding(code, name).body
    IN IF Len(ns) # body.arity THEN Undefined
       ELSE CASE body.op = "AddConst" -> Defined(ns[1] + body.k)
              [] body.op = "Const" -> Defined(body.k)
              [] body.op = "Param" -> Defined(ns[1])
              [] body.op = "CallAdd" ->
                    IF /\ LeavesFunction(code, body.callee)
                       /\ FinalBinding(code, body.callee).body.op = "Const"
                    THEN Defined(FinalBinding(code, body.callee).body.k + ns[1])
                    ELSE Undefined
              [] OTHER -> Undefined

AllIntegers(args) == \A i \in 1..Len(args) : args[i].tag = "Integer"
IntsOf(args) == [i \in 1..Len(args) |-> args[i].i]

ValidModule(code) ==
    \A i \in 1..Len(code) : code[i].kind \notin {"!invalid", "Return"}

C6_EmptyIsEmptyScript ==
    (LastIsCompile /\ source.code = <<>>)
        => last.result = Err(Compilation(source.path, "Empty script"))

\* C7: a non-empty module without a top-level function named function_name is
\* rejected with Compilation(file_name, "Function <function_name> not found"),
\* and no Script is produced.
C7_MissingFunction ==
    (LastIsCompile /\ parse_module(source.code, source.path).ok
        /\ Len(source.code) > 0 /\ ~Declares(source.code, source.fn_name))
        => /\ last.result =
                 Err(Compilation(source.path,
                                 "Function " \o source.fn_name \o " not found"))
           /\ script = NotYet

\* A module that declares value() only has been compiled for "f".
C7_Witness ==
    /\ LastIsCompile
    /\ source.code = <<FunctionDef("value", ConstBody(42))>>
    /\ source.fn_name = "f"
    /\ source.path = "rules.py"
    /\ last.result = Err(Compilation("rules.py", "Function f not found"))

\* C10: an argument that is, or contains inside a Dict, a Bool, List or Scope
\* makes eval fail with UnsupportedType.
C10_UnsupportedArgRejected ==
    (LastIsEval /\ \E i \in 1..Len(last.args) : ~OnlySupported(last.args[i]))
        => /\ ~last.outcome.panic
           /\ ~last.outcome.result.ok
           /\ last.outcome.result.err.kind = "UnsupportedType"

(***************************************************************************)
(* The context handle.  ScriptEvalCtx is a raw pointer to the EvalCtx that *)
(* eval_in_query borrows for one call; it is Copy and Send, and ctx /      *)
(* ctx_mut dereference it without any check.                               *)
(***************************************************************************)
Threads == {"t1", "t2"}
Contexts == {"c1", "c2"}

\* Reading through a pointer whose borrow has ended is undefined behaviour:
\* the read finds whatever the memory holds now, or the process dies.
DanglingOutcomes == {"stale", "crash"}

\* ctx / ctx_mut: unsafe { &*self.ctx } / unsafe { &mut *self.ctx }
DerefOutcomes(live) == IF live THEN {"reached"} ELSE DanglingOutcomes

InitCtx ==
    /\ ctxState = [c \in Contexts |-> "fresh"]
    /\ inflight = [t \in Threads |-> "none"]
    /\ held = {}
    /\ accessing = {}
    /\ lastDeref = NotYet
    /\ proc = "running"
    /\ source = NotYet /\ script = NotYet /\ last = NotYet /\ failed = FALSE
    /\ IdleMarshal
    /\ IdleEq

\* eval_in_query starts: the caller's &mut EvalCtx is borrowed for the call and
\* a handle to it is made for the script.
BeginInQuery(t, c) ==
    /\ proc = "running"
    /\ inflight[t] = "none"
    /\ ctxState[c] = "fresh"
    /\ inflight' = [inflight EXCEPT ![t] = c]
    /\ ctxState' = [ctxState EXCEPT ![c] = "borrowed"]
    /\ held' = held \cup {<<t, c>>}
    /\ UNCHANGED <<accessing, lastDeref, proc, source, script, last, failed,
                   marshalVars, eqVars>>

\* eval_in_query returns: the borrow of the EvalCtx ends.  The handle is Copy
\* and has no Drop: the copies made of it stay where they are.
ReturnInQuery(t) ==
    /\ proc = "running"
    /\ inflight[t] # "none"
    /\ ~\E a \in accessing : a[1] = t
    /\ ctxState' = [ctxState EXCEPT ![inflight[t]] = "released"]
    /\ inflight' = [inflight EXCEPT ![t] = "none"]
    /\ UNCHANGED <<held, accessing, lastDeref, proc, source, script, last, failed,
                   marshalVars, eqVars>>

\* #[derive(Copy, Clone)] and unsafe impl Send: a copy of the handle is moved
\* to another thread.
SendHandle(t, t2, c) ==
    /\ proc = "running"
    /\ <<t, c>> \in held
    /\ t2 # t
    /\ <<t2, c>> \notin held
    /\ held' = held \cup {<<t2, c>>}
    /\ UNCHANGED <<ctxState, inflight, accessing, lastDeref, proc, source, script,
                   last, failed, marshalVars, eqVars>>

\* ctx (kind "shared") or ctx_mut (kind "mut") on a handle the thread holds.
Deref(t, c, kind) ==
    /\ proc = "running"
    /\ <<t, c>> \in held
    /\ ~\E a \in accessing : a[1] = t /\ a[2] = c
    /\ \E o \in DerefOutcomes(ctxState[c] = "borrowed") :
          /\ lastDeref' = [thread |-> t, ctx |-> c, kind |-> kind,
                           live |-> (ctxState[c] = "borrowed"), outcome |-> o]
          /\ proc' = IF o = "crash" THEN "crashed" ELSE proc
          /\ accessing' = IF o \in {"reached", "stale"}
                          THEN accessing \cup {<<t, c, kind>>} ELSE accessing
    /\ UNCHANGED <<ctxState, inflight, held, source, script, last, failed,
                   marshalVars, eqVars>>

\* The reference got from ctx / ctx_mut goes out of use.
EndDeref(t, c) ==
    /\ proc = "running"
    /\ \E a \in accessing : a[1] = t /\ a[2] = c
    /\ accessing' = {a \in accessing : ~(a[1] = t /\ a[2] = c)}
    /\ UNCHANGED <<ctxState, inflight, held, lastDeref, proc, source, script, last,
                   failed, marshalVars, eqVars>>

NextCtx ==
    \/ \E t \in Threads, c \in Contexts : BeginInQuery(t, c)
    \/ \E t \in Threads : ReturnInQuery(t)
    \/ \E t \in Threads, t2 \in Threads, c \in Contexts : SendHandle(t, t2, c)
    \/ \E t \in Threads, c \in Contexts, kind \in {"shared", "mut"} : Deref(t, c, kind)
    \/ \E t \in Threads, c \in Contexts : EndDeref(t, c)

SpecCtx == InitCtx /\ [][NextCtx]_vars

\* C3: a dereference of a handle whose originating call has returned is
\* rejected; it does not reach an evaluation context.
C3_StaleDerefRejected ==
    (lastDeref # NotYet /\ ~lastDeref.live) => lastDeref.outcome = "rejected"

\* C4: a context's handle is held by at most one in-flight in-query call, and no
\* two threads have the same evaluation context open at the same time.
C4_OneCallPerHandle ==
    \A c \in Contexts :
        /\ Cardinality({t \in Threads : <<t, c>> \in held /\ inflight[t] # "none"}) <= 1
        /\ Cardinality({a[1] : a \in {x \in accessing : x[2] = c}}) <= 1

(***************************************************************************)
(* Foreign specification: a native object the guest runtime produced (the  *)
(* result of a script) is converted to a ScriptValue.  The guest's         *)
(* integers range beyond the i64 interval on both sides.                   *)
(***************************************************************************)
NativeInts == (2 * I64Min)..((2 * I64Max) + 1)
EdgeInts == {2 * I64Min, I64Min - 1, I64Min, 0, I64Max, I64Max + 1, (2 * I64Max) + 1}

ForeignInputs ==
    {PyInt(n) : n \in NativeInts}
        \cup {PyDict(<<<<PyStr("a"), PyInt(n)>>>>) : n \in EdgeInts}
        \cup {PyDict(<<<<PyStr("a"), PyInt(n)>>, <<PyStr("b"), PyInt(m)>>>>) :
                 n \in EdgeInts, m \in EdgeInts}
        \cup {PyDict(<<<<PyStr("b"), PyStr("a")>>, <<PyStr("a"), PyInt(n)>>>>) :
                 n \in EdgeInts}
        \cup {PyDict(<<<<PyStr("a"), PyDict(<<<<PyStr("b"), PyInt(n)>>>>)>>,
                       <<PyStr("b"), PyInt(m)>>>>) : n \in EdgeInts, m \in {0, I64Max}}

InitForeign ==
    /\ hostValue = NotYet
    /\ foreign \in ForeignInputs
    /\ back = NotYet
    /\ IdleEq
    /\ IdleEngine
    /\ IdleCtx

NextForeign == ToHost

SpecForeign == InitForeign /\ [][NextForeign]_vars

FitsI64(n) == I64Min <= n /\ n <= I64Max

\* Some integer of the object, at any depth of its mappings, is outside i64.
RECURSIVE HasBigInt(_)
HasBigInt(o) ==
    \/ o.ty = "int" /\ ~FitsI64(o.n)
    \/ /\ o.ty = "dict"
       /\ \E i \in 1..Len(o.items) : HasBigInt(o.items[i][2])

\* The host value carries the object's integers and strings unchanged.
RECURSIVE Carries(_, _)
Carries(o, v) ==
    CASE o.ty = "int" -> v.tag = "Integer" /\ v.i = o.n
      [] o.ty = "str" -> v.tag = "Str" /\ v.s = o.s
      [] o.ty = "dict" ->
            /\ v.tag = "Dict"
            /\ DOMAIN v.d = {o.items[i][1].s : i \in 1..Len(o.items)}
            /\ \A i \in 1..Len(o.items) : Carries(o.items[i][2], v.d[o.items[i][1].s])
      [] OTHER -> FALSE

\* C11: a native integer n converts to Ok(Integer(n)) exactly when
\* -2^63 <= n <= 2^63 - 1 (here: I64Min <= n <= I64Max) and to
\* Err(UnsupportedType("big_int")) otherwise; it is never wrapped or truncated,
\* and an integer outside the range nested in a mapping fails the whole
\* conversion.
C11_IntRange ==
    (foreign # NotYet /\ back # NotYet /\ hostValue = NotYet)
        => /\ (foreign.ty = "int" /\ FitsI64(foreign.n))
                 => back = Ok(Integer(foreign.n))
           /\ (foreign.ty = "int" /\ ~FitsI64(foreign.n))
                 => back = Err(UnsupportedType("big_int"))
           /\ HasBigInt(foreign) => back = Err(UnsupportedType("big_int"))
           /\ ~HasBigInt(foreign) => (back.ok /\ Carries(foreign, back.val))

\* A mapping whose second value is the first integer above the range has been
\* converted, and the conversion failed as a whole.
C11_Witness ==
    /\ hostValue = NotYet
    /\ foreign = PyDict(<<<<PyStr("a"), PyInt(I64Max)>>, <<PyStr("b"), PyInt(I64Max + 1)>>>>)
    /\ back = Err(UnsupportedType("big_int"))
=============================================================================
